---- MODULE Spec2Model ----
(***************************************************************************)
(* Smart-Expense-Analyzer: the rule-based transaction categorizer          *)
(* (transaction_categorizer.py, config.py), the transaction analysis of    *)
(* the user profile (user_profile.py), the second categorizer              *)
(* (ai_categorizer.py) and the handlers of the app session (app.py).       *)
(*                                                                         *)
(* Text is modelled as TLA+ strings (character sequences): Len, SubSeq and *)
(* \o act on them as on Python str.  Amounts are integers.  Python floats  *)
(* that come out of a division (monthly means, the savings ratio) are      *)
(* modelled as exact rationals [num, den] with den > 0.                    *)
(***************************************************************************)
EXTENDS Integers, Sequences, FiniteSets, TLC

VARIABLES
    pc,                \* position of the call under study
    description,       \* categorize_transaction: argument
    amount,            \* categorize_transaction: argument
    transaction_type,  \* categorize_transaction: argument
    category,          \* categorize_transaction: returned category
    analysis,          \* _calculate_financial_health_score: the analysis dict
    score,             \* _calculate_financial_health_score: returned record
    transactions_df,   \* the rows of the transaction table (a DataFrame)
    user_profile,      \* the profile dict given to / returned by analyze_transactions
    columns,           \* the column labels of the transaction table
    uploaded,          \* the rows parsed from the statement held by the uploader
    corrected,         \* history: row index -> category last saved by the user
    ai_category,       \* ai_categorizer's categorize_transaction: returned category
    ml_category,       \* ai_categorizer: what _ml_based_categorization returns
    assigned_by,       \* history: row index -> who wrote the row's category
    csv_upload,        \* the file the CSV uploader widget holds, or None
    chat_history,      \* st.session_state.chat_history: the roles of the messages
    suggestions,       \* st.session_state.suggestions
    raised             \* the exception the last handler of the app ended with

vars == << pc, description, amount, transaction_type, category, analysis,
           score, transactions_df, user_profile, columns, uploaded,
           corrected, ai_category, ml_category, assigned_by, csv_upload,
           chat_history, suggestions, raised >>

\* Python's None
None == << >>

(***************************************************************************)
(* Bounds of the model.                                                    *)
(***************************************************************************)
MaxWords == 3
MaxRows == 3
MaxCategories == 6
MaxCallRows == 2
MaxBatchRows == 3
MaxSessionRows == 2
MaxPipelineRows == 3
MaxVariantWords == 1
MaxAppRows == 1
MaxChatMessages == 2

(***************************************************************************)
(* config.py                                                               *)
(***************************************************************************)
CATEGORIES ==
    << "Food & Dining", "Transportation", "Shopping", "Bills & Utilities",
       "Entertainment", "Healthcare", "Education", "Travel", "Investments",
       "Income", "Other" >>

CATEGORY_KEYWORDS == <<
    [category |-> "Food & Dining", keywords |-> <<
        "food", "restaurant", "swiggy", "zomato", "dominos", "mcdonalds",
        "starbucks", "grocery", "supermarket", "cafe", "dining", "meal",
        "pizza", "burger", "coffee", "tea", "snack", "lunch", "dinner" >>],
    [category |-> "Transportation", keywords |-> <<
        "uber", "ola", "taxi", "cab", "petrol", "diesel", "fuel", "gas",
        "bus", "train", "metro", "parking", "toll", "transport", "ride" >>],
    [category |-> "Shopping", keywords |-> <<
        "amazon", "flipkart", "myntra", "shopping", "mall", "store", "shop",
        "clothes", "fashion", "electronics", "book", "purchase", "order" >>],
    [category |-> "Bills & Utilities", keywords |-> <<
        "electricity", "water", "internet", "phone", "bill", "utility",
        "gas", "rent", "insurance", "credit card", "premium", "subscription" >>],
    [category |-> "Entertainment", keywords |-> <<
        "netflix", "spotify", "movie", "cinema", "game", "gaming",
        "entertainment", "concert", "theater", "streaming", "music", "video",
        "show" >>],
    [category |-> "Healthcare", keywords |-> <<
        "hospital", "doctor", "medicine", "pharmacy", "health", "medical",
        "clinic", "dental", "eye", "prescription", "treatment" >>],
    [category |-> "Education", keywords |-> <<
        "school", "college", "university", "course", "book", "education",
        "tuition", "fee", "student", "learning", "training" >>],
    [category |-> "Travel", keywords |-> <<
        "hotel", "flight", "travel", "vacation", "trip", "booking",
        "airline", "resort", "tourism", "journey" >>],
    [category |-> "Investments", keywords |-> <<
        "investment", "mutual fund", "stock", "savings", "sip", "equity",
        "portfolio", "fund", "trading", "brokerage" >>],
    [category |-> "Income", keywords |-> <<
        "salary", "bonus", "income", "credit", "deposit", "refund",
        "cashback", "interest", "dividend", "freelance", "payment" >>] >>

(***************************************************************************)
(* Python str operations used by the categorizer.                          *)
(***************************************************************************)
UpperLetters == "ABCDEFGHIJKLMNOPQRSTUVWXYZ"
LowerLetters == "abcdefghijklmnopqrstuvwxyz"

\* the upper-case letters mapped to their lower-case forms
LowerMap ==
    [c \in { SubSeq(UpperLetters, i, i) : i \in 1..Len(UpperLetters) } |->
        LET i == CHOOSE j \in 1..Len(UpperLetters) : SubSeq(UpperLetters, j, j) = c
        IN  SubSeq(LowerLetters, i, i)]

\* str.lower() on one character
LowerChar(c) == IF c \in DOMAIN LowerMap THEN LowerMap[c] ELSE c

RECURSIVE Lower(_)
\* str.lower()
Lower(s) ==
    IF Len(s) = 0 THEN ""
    ELSE LowerChar(SubSeq(s, 1, 1)) \o Lower(SubSeq(s, 2, Len(s)))

\* keyword in text  (substring test)
Contains(text, keyword) ==
    \E i \in 0..(Len(text) - Len(keyword)) :
        SubSeq(text, i + 1, i + Len(keyword)) = keyword

(***************************************************************************)
(* transaction_categorizer.py                                              *)
(***************************************************************************)
\* inner loop: some keyword of the list is a substring of the description
AnyKeywordIn(keywords, description_lower) ==
    \E j \in 1..Len(keywords) : Contains(description_lower, keywords[j])

RECURSIVE KeywordLoopRev(_, _)
\* the keyword loop run over the table in reverse order
KeywordLoopRev(i, description_lower) ==
    IF i < 1 THEN ""
    ELSE IF AnyKeywordIn(CATEGORY_KEYWORDS[i].keywords, description_lower)
         THEN CATEGORY_KEYWORDS[i].category
         ELSE KeywordLoopRev(i - 1, description_lower)

KeywordCategoryReversed(description_lower) ==
    KeywordLoopRev(Len(CATEGORY_KEYWORDS), description_lower)

RECURSIVE KeywordLoop(_, _)
\* for category, keywords in CATEGORY_KEYWORDS.items(), from the i-th entry on
KeywordLoop(i, description_lower) ==
    IF i > Len(CATEGORY_KEYWORDS) THEN ""
    ELSE IF AnyKeywordIn(CATEGORY_KEYWORDS[i].keywords, description_lower)
         THEN CATEGORY_KEYWORDS[i].category
         ELSE KeywordLoop(i + 1, description_lower)

\* the category returned by the keyword loop, "" when the loop falls through
KeywordCategory(description_lower) == KeywordLoop(1, description_lower)

\* the fallback with inclusive thresholds
AmountFallbackInclusive(amt, ttype) ==
    IF ttype = "Credit" THEN "Income"
    ELSE IF amt >= 10000 THEN "Shopping"
    ELSE IF amt >= 1000 THEN "Bills & Utilities"
    ELSE "Other"

\* the fallback with a catch-all that is not in CATEGORIES
AmountFallbackUncategorized(amt, ttype) ==
    IF ttype = "Credit" THEN "Income"
    ELSE IF amt > 10000 THEN "Shopping"
    ELSE IF amt > 1000 THEN "Bills & Utilities"
    ELSE "Uncategorized"

\* amount-based fallback
AmountFallback(amt, ttype) ==
    IF ttype = "Credit" THEN "Income"
    ELSE IF amt > 10000 THEN "Shopping"
    ELSE IF amt > 1000 THEN "Bills & Utilities"
    ELSE "Other"

categorize_transaction(desc, amt, ttype) ==
    LET description_lower == Lower(desc)
        matched == KeywordCategory(description_lower)
    IN  IF matched # "" THEN matched ELSE AmountFallback(amt, ttype)

(***************************************************************************)
(* ai_categorizer.py: the second categorize_transaction.  The TF-IDF       *)
(* similarity of _ml_based_categorization is not computed here: its        *)
(* return value is an input, any keyword category or "Other".              *)
(***************************************************************************)
\* the keyword loop run on the description as written
RuleBasedCaseSensitive(desc) ==
    LET matched == KeywordCategory(desc)
    IN  IF matched # "" THEN matched ELSE "Other"

\* _rule_based_categorization
rule_based_categorization(desc) ==
    LET description_lower == Lower(desc)
        matched == KeywordCategory(description_lower)
    IN  IF matched # "" THEN matched ELSE "Other"

\* _amount_based_categorization
amount_based_categorization(amt, ttype) ==
    IF ttype = "Credit" THEN "Income"
    ELSE IF amt > 10000 THEN "Shopping"
    ELSE IF amt > 1000 THEN "Bills & Utilities"
    ELSE "Other"

\* categorize_transaction of ai_categorizer.py, ml being the value
\* _ml_based_categorization returns for the description
ai_categorize_transaction(desc, amt, ttype, ml) ==
    LET rule_based_category == rule_based_categorization(desc)
    IN  IF rule_based_category # "Other" THEN rule_based_category
        ELSE IF ml # "Other" THEN ml
        ELSE amount_based_categorization(amt, ttype)

\* the call of the loop body with the type of the row left out
RowCategoryDebit(row) ==
    categorize_transaction(row.description, row.amount, "Debit")

\* the call of the loop body of categorize_transactions_batch
RowCategory(row) ==
    categorize_transaction(row.description, row.amount, row.type)

\* transactions_df['category'] = ""
AddCategoryColumn(df) ==
    [i \in 1..Len(df) |-> [category |-> ""] @@ df[i]]

\* a loop whose category variable keeps the value of the row before when
\* the row has no keyword
CategorizeRowsCarried(df, index) ==
    [i \in 1..Len(df) |->
        [df[i] EXCEPT !.category =
            IF i > 1 /\ KeywordCategory(Lower(df[i].description)) = ""
            THEN RowCategory(df[i - 1])
            ELSE RowCategory(df[i])]]

RECURSIVE CategorizeRows(_, _)
\* the iterrows() loop from the given row on: transactions_df.at[index,
\* 'category'] = category, row after row
CategorizeRows(df, index) ==
    IF index > Len(df) THEN df
    ELSE CategorizeRows([df EXCEPT ![index].category = RowCategory(df[index])],
                        index + 1)

\* the rows categorize_transactions_batch returns
categorize_transactions_batch(df) ==
    IF Len(df) = 0 THEN df
    ELSE CategorizeRows(AddCategoryColumn(df), 1)

\* the column labels without the early return for an empty table
BatchColumnsUnguarded(df, cols) == cols \cup { "category" }

\* the column labels of the table categorize_transactions_batch returns
BatchColumns(df, cols) ==
    IF Len(df) = 0 THEN cols ELSE cols \cup { "category" }

(***************************************************************************)
(* Python float arithmetic of user_profile.py, as exact rationals.         *)
(***************************************************************************)
Rat(n, d) == [num |-> n, den |-> d]

\* savings computed as expenses minus income
RSubReversed(a, b) == Rat(b.num * a.den - a.num * b.den, a.den * b.den)

\* a - b
RSub(a, b) == Rat(a.num * b.den - b.num * a.den, a.den * b.den)

\* a * b
RMul(a, b) == Rat(a.num * b.num, a.den * b.den)

\* a / b for b # 0
RDiv(a, b) ==
    IF b.num > 0 THEN Rat(a.num * b.den, a.den * b.num)
    ELSE Rat(-(a.num * b.den), a.den * (-b.num))

\* a > b
RGt(a, b) == a.num * b.den > b.num * a.den

\* a >= b
RGe(a, b) == a.num * b.den >= b.num * a.den

\* a < b
RLt(a, b) == a.num * b.den < b.num * a.den

\* a == b
REq(a, b) == a.num * b.den = b.num * a.den

(***************************************************************************)
(* user_profile.py: _calculate_financial_health_score                      *)
(***************************************************************************)
\* the guard written as monthly_income >= 0
IncomeGuardNonNegative(monthly_income) == RGe(monthly_income, Rat(0, 1))

\* if monthly_income > 0
IncomeGuard(monthly_income) == RGt(monthly_income, Rat(0, 1))

\* the savings-ratio brackets with inclusive comparisons
RatioAdjustmentInclusive(savings_ratio) ==
    IF RGe(savings_ratio, Rat(2, 10)) THEN 20
    ELSE IF RGe(savings_ratio, Rat(1, 10)) THEN 10
    ELSE IF RGe(savings_ratio, Rat(0, 1)) THEN 5
    ELSE -20

\* the savings-ratio brackets without the penalty of the last branch
RatioAdjustmentNoPenalty(savings_ratio) ==
    IF RGt(savings_ratio, Rat(2, 10)) THEN 20
    ELSE IF RGt(savings_ratio, Rat(1, 10)) THEN 10
    ELSE IF RGt(savings_ratio, Rat(0, 1)) THEN 5
    ELSE 0

\* the savings-ratio brackets
RatioAdjustment(savings_ratio) ==
    IF RGt(savings_ratio, Rat(2, 10)) THEN 20
    ELSE IF RGt(savings_ratio, Rat(1, 10)) THEN 10
    ELSE IF RGt(savings_ratio, Rat(0, 1)) THEN 5
    ELSE -20

\* the savings-target tiers without the test that a target is set
TargetAdjustmentUnguarded(actual_savings, target) ==
    IF RGe(actual_savings, Rat(target, 1)) THEN 15
    ELSE IF RGe(actual_savings, RMul(Rat(target, 1), Rat(8, 10))) THEN 10
    ELSE IF RGe(actual_savings, RMul(Rat(target, 1), Rat(5, 10))) THEN 5
    ELSE 0

\* the savings-target tiers with strict comparisons
TargetAdjustmentStrict(actual_savings, target) ==
    IF target > 0
    THEN IF RGt(actual_savings, Rat(target, 1)) THEN 15
         ELSE IF RGt(actual_savings, RMul(Rat(target, 1), Rat(8, 10))) THEN 10
         ELSE IF RGt(actual_savings, RMul(Rat(target, 1), Rat(5, 10))) THEN 5
         ELSE 0
    ELSE 0

\* the savings-target tiers
TargetAdjustment(actual_savings, target) ==
    IF target > 0
    THEN IF RGe(actual_savings, Rat(target, 1)) THEN 15
         ELSE IF RGe(actual_savings, RMul(Rat(target, 1), Rat(8, 10))) THEN 10
         ELSE IF RGe(actual_savings, RMul(Rat(target, 1), Rat(5, 10))) THEN 5
         ELSE 0
    ELSE 0

\* the spending-trend adjustment
TrendAdjustment(spending_trend) ==
    IF spending_trend = "decreasing" THEN 10
    ELSE IF spending_trend = "increasing" THEN -10
    ELSE 0

\* the final statement without the clamp, on a scale of 1000
ClampPerMille(s) == s * 10

\* max(0, min(100, score))
Clamp(s) ==
    LET capped == IF s < 100 THEN s ELSE 100
    IN  IF capped > 0 THEN capped ELSE 0

\* the value of the local variable score before the final statement
UnclampedScore(an, profile) ==
    LET monthly_income   == an.monthly_income_avg
        monthly_expenses == an.monthly_expenses_avg
        target           == profile.financial_goals.monthly_savings_target
        savings          == RSub(monthly_income, monthly_expenses)
    IN  IF IncomeGuard(monthly_income)
        THEN 50
             + RatioAdjustment(RDiv(savings, monthly_income))
             + TargetAdjustment(savings, target)
             + TrendAdjustment(an.spending_trend)
        ELSE 50 + TrendAdjustment(an.spending_trend)

\* the returned record: raised is "" on a normal return and names the
\* exception otherwise
calculate_financial_health_score(an, profile) ==
    IF IncomeGuard(an.monthly_income_avg) /\ an.monthly_income_avg.num = 0
    THEN [raised |-> "ZeroDivisionError", value |-> 0]
    ELSE [raised |-> "", value |-> Clamp(UnclampedScore(an, profile))]

(***************************************************************************)
(* user_profile.py: the analyzers.  A row of the table is                  *)
(*   [date, description, amount, type, category]                           *)
(* and a date is [kind, year, month, day], kind being the Python type of   *)
(* the cell ("str" before pd.to_datetime, "datetime64" after).             *)
(***************************************************************************)
\* pd.to_datetime on one cell
to_datetime(d) == [d EXCEPT !.kind = "datetime64"]

\* transactions_df['date'] = pd.to_datetime(transactions_df['date'])
ToDatetimeColumn(df) ==
    [i \in 1..Len(df) |-> [df[i] EXCEPT !.date = to_datetime(@)]]

\* .dt.to_period('M'): the year-month bucket, as its ordinal
PeriodOrdinal(d) == d.year * 12 + (d.month - 1)

PeriodYear(p) == p \div 12

PeriodMonth(p) == (p % 12) + 1

\* two-digit field of strftime / isoformat
Pad2(n) == IF n < 10 THEN "0" \o ToString(n) ELSE ToString(n)

\* Period.strftime('%Y-%m')
StrftimeYm(p) == ToString(PeriodYear(p)) \o "-" \o Pad2(PeriodMonth(p))

\* Timestamp.isoformat() of a date at midnight
Isoformat(d) ==
    ToString(d.year) \o "-" \o Pad2(d.month) \o "-" \o Pad2(d.day)
        \o "T00:00:00"

\* ordinal of a day, for min() and max() of the date column
DayOrdinal(d) == (d.year * 12 + (d.month - 1)) * 31 + (d.day - 1)

\* transactions_df['date'].min()
MinDate(df) ==
    LET i == CHOOSE k \in 1..Len(df) :
                 \A j \in 1..Len(df) : DayOrdinal(df[k].date) <= DayOrdinal(df[j].date)
    IN  df[i].date

\* transactions_df['date'].max()
MaxDate(df) ==
    LET i == CHOOSE k \in 1..Len(df) :
                 \A j \in 1..Len(df) : DayOrdinal(df[k].date) >= DayOrdinal(df[j].date)
    IN  df[i].date

\* df[df['category'] == 'Income']
IsIncomeRow(r) == r.category = "Income"

\* a filter that keeps every row
IsAnyRow(r) == TRUE

\* df[df['category'] != 'Income']
IsExpenseRow(r) == r.category # "Income"

RECURSIVE SumAmount(_)
\* ['amount'].sum()
SumAmount(rows) ==
    IF Len(rows) = 0 THEN 0 ELSE rows[1].amount + SumAmount(Tail(rows))

RECURSIVE SortedAscending(_)
\* the group keys in sorted order
SortedAscending(S) ==
    IF S = {} THEN << >>
    ELSE LET least == CHOOSE x \in S : \A y \in S : x <= y
         IN  << least >> \o SortedAscending(S \ {least})

\* keys sorted by month number only, ignoring the year
MonthOnlyKey(p) == PeriodMonth(p) * 10000 + PeriodYear(p)

RECURSIVE SortedByMonthOnly(_)
SortedByMonthOnly(S) ==
    IF S = {} THEN << >>
    ELSE LET least == CHOOSE x \in S : \A y \in S : MonthOnlyKey(x) <= MonthOnlyKey(y)
         IN  << least >> \o SortedByMonthOnly(S \ {least})

\* rows.groupby(rows['date'].dt.to_period('M'))['amount'].sum():
\* one entry per populated month, in chronological order
GroupByMonthSum(rows) ==
    LET periods == { PeriodOrdinal(rows[i].date) : i \in 1..Len(rows) }
        keys    == SortedAscending(periods)
    IN  [k \in 1..Len(keys) |->
            [period |-> keys[k],
             amount |-> SumAmount(SelectSeq(rows,
                            LAMBDA r : PeriodOrdinal(r.date) = keys[k]))]]

RECURSIVE SumSeries(_)
SumSeries(series) ==
    IF Len(series) = 0 THEN 0 ELSE series[1].amount + SumSeries(Tail(series))

\* the mean taken over the calendar span from the first to the last month
MeanOverSpan(series) ==
    Rat(SumSeries(series), series[Len(series)].period - series[1].period + 1)

\* Series.mean() of a non-empty series
Mean(series) == Rat(SumSeries(series), Len(series))

\* A Series that ends in to_dict() is a sequence of [key, value] entries:
\* a Python dict keeps the order in which the Series handed it its items.

\* rows.groupby('category')['amount'].sum(), as the set of its entries
GroupByCategorySum(rows) ==
    { [key |-> c,
       value |-> SumAmount(SelectSeq(rows, LAMBDA r : r.category = c))] :
        c \in { rows[i].category : i \in 1..Len(rows) } }

\* rows['description'].value_counts() before its sort, as the set of entries
CountValues(rows) ==
    { [key |-> d,
       value |-> Len(SelectSeq(rows, LAMBDA r : r.description = d))] :
        d \in { rows[i].description : i \in 1..Len(rows) } }

\* the entries sorted by value ascending (every order of equal values)
RECURSIVE SortValuesAscending(_)
SortValuesAscending(entries) ==
    IF entries = {} THEN { << >> }
    ELSE LET least == { e \in entries :
                          \A f \in entries : e.value <= f.value }
         IN  UNION { { << e >> \o rest :
                         rest \in SortValuesAscending(entries \ {e}) } :
                     e \in least }

\* Series.sort_values(ascending=False), which value_counts() applies too.
\* The default kind is 'quicksort', which is not a stable sort: entries of
\* equal value come out in an order that depends on the numpy build, so the
\* result is any of the orders that are descending by value.
RECURSIVE SortValuesDescending(_)
SortValuesDescending(entries) ==
    IF entries = {} THEN { << >> }
    ELSE LET greatest == { e \in entries :
                             \A f \in entries : e.value >= f.value }
         IN  UNION { { << e >> \o rest :
                         rest \in SortValuesDescending(entries \ {e}) } :
                     e \in greatest }

\* Series.head(n + 1)
HeadOneMore(series, n) ==
    SubSeq(series, 1, IF Len(series) < n + 1 THEN Len(series) ELSE n + 1)

\* Series.head(n)
HeadN(series, n) ==
    SubSeq(series, 1, IF Len(series) < n THEN Len(series) ELSE n)

\* the values income_df['description'].value_counts() can return
ValueCounts(df) ==
    SortValuesDescending(CountValues(SelectSeq(df, IsIncomeRow)))

\* the values category_breakdown can take in _analyze_expenses
CategoryBreakdowns(df) ==
    SortValuesDescending(GroupByCategorySum(SelectSeq(df, IsExpenseRow)))

\* _analyze_income, value_counts being income_df['description'].value_counts()
analyze_income(df, value_counts) ==
    LET income_df == SelectSeq(df, IsIncomeRow)
    IN  IF Len(income_df) = 0
        THEN [total_income |-> 0, monthly_income_avg |-> Rat(0, 1),
              income_sources |-> << >>]
        ELSE [total_income |-> SumAmount(income_df),
              monthly_income_avg |-> Mean(GroupByMonthSum(income_df)),
              income_sources |-> HeadN(value_counts, 5)]

\* _analyze_expenses without its guard for an empty expense_df: the mean of
\* an empty monthly series is a 0/0
analyze_expenses_unguarded(df, category_breakdown) ==
    LET expense_df == SelectSeq(df, IsExpenseRow)
    IN  [total_expenses |-> SumAmount(expense_df),
         monthly_expenses_avg |-> Mean(GroupByMonthSum(expense_df)),
         expense_breakdown |-> category_breakdown,
         top_spending_categories |-> HeadN(category_breakdown, 5)]

\* _analyze_expenses, category_breakdown being the sorted per-category sums
analyze_expenses(df, category_breakdown) ==
    LET expense_df == SelectSeq(df, IsExpenseRow)
    IN  IF Len(expense_df) = 0
        THEN [total_expenses |-> 0, monthly_expenses_avg |-> Rat(0, 1),
              expense_breakdown |-> << >>,
              top_spending_categories |-> << >>]
        ELSE [total_expenses |-> SumAmount(expense_df),
              monthly_expenses_avg |-> Mean(GroupByMonthSum(expense_df)),
              expense_breakdown |-> category_breakdown,
              top_spending_categories |-> HeadN(category_breakdown, 5)]

RECURSIVE SumIndexTimesValue(_, _)
\* Sum of i * y_i with i counted from the given index
SumIndexTimesValue(series, i) ==
    IF Len(series) = 0 THEN 0
    ELSE i * series[1].amount + SumIndexTimesValue(Tail(series), i + 1)

\* numerator of the least-squares slope of y_0..y_(n-1) against 0..n-1:
\* n * Sum(i * y_i) - Sum(i) * Sum(y_i); its denominator is positive
SlopeNumerator(series) ==
    LET n == Len(series)
    IN  n * SumIndexTimesValue(series, 0) - ((n * (n - 1)) \div 2) * SumSeries(series)

Sign(x) == IF x > 0 THEN 1 ELSE IF x < 0 THEN -1 ELSE 0

\* np.polyfit(range(n), values, 1)[0], by its sign.  numpy solves the
\* least-squares problem in double precision (scaled Vandermonde matrix,
\* SVD-based lstsq), so the returned slope is the exact slope up to a
\* rounding residue: a non-zero exact slope keeps its sign, a zero exact
\* slope comes back as a residue of either sign or as 0.0.
PolyfitSlopeSigns(series) ==
    IF SlopeNumerator(series) = 0 THEN {-1, 0, 1}
    ELSE { Sign(SlopeNumerator(series)) }

\* the signs trend_slope can take in _analyze_spending_patterns
TrendSlopeSigns(df) ==
    LET monthly_spending == GroupByMonthSum(SelectSeq(df, IsExpenseRow))
    IN  IF Len(monthly_spending) > 1 THEN PolyfitSlopeSigns(monthly_spending)
        ELSE {0}

\* the last month holding the maximum
IdxMaxLast(series) ==
    LET k == CHOOSE i \in 1..Len(series) :
                 /\ \A j \in 1..Len(series) : series[i].amount >= series[j].amount
                 /\ \A j \in (i + 1)..Len(series) : series[j].amount < series[i].amount
    IN  series[k].period

\* Series.idxmax(): the first month holding the maximum
IdxMax(series) ==
    LET k == CHOOSE i \in 1..Len(series) :
                 /\ \A j \in 1..Len(series) : series[i].amount >= series[j].amount
                 /\ \A j \in 1..(i - 1) : series[j].amount < series[i].amount
    IN  series[k].period

\* Series.idxmin(): the first month holding the minimum
IdxMin(series) ==
    LET k == CHOOSE i \in 1..Len(series) :
                 /\ \A j \in 1..Len(series) : series[i].amount <= series[j].amount
                 /\ \A j \in 1..(i - 1) : series[j].amount > series[i].amount
    IN  series[k].period

\* _analyze_spending_patterns, trend_slope given by its sign
analyze_spending_patterns(df, slope_sign) ==
    LET expense_df       == SelectSeq(df, IsExpenseRow)
        monthly_spending == GroupByMonthSum(expense_df)
    IN  IF Len(expense_df) = 0
        THEN [spending_trend |-> "stable",
              highest_spending_month |-> "None",
              lowest_spending_month |-> "None"]
        ELSE [spending_trend |->
                 IF Len(monthly_spending) > 1
                 THEN IF slope_sign > 0 THEN "increasing"
                      ELSE IF slope_sign < 0 THEN "decreasing"
                      ELSE "stable"
                 ELSE "insufficient_data",
              highest_spending_month |-> StrftimeYm(IdxMax(monthly_spending)),
              lowest_spending_month |-> StrftimeYm(IdxMin(monthly_spending)),
              monthly_spending |-> monthly_spending]

\* dict.update(): the keys of the second argument are added or replaced
Update(d, e) == e @@ d

\* user_profile['transaction_analysis'] = analysis
AttachAnalysis(profile, complete) ==
    Update(profile, [transaction_analysis |-> complete])

\* the profile returned by analyze_transactions for a non-empty table whose
\* date column is already converted
analyze_transactions(df, profile, slope_sign, category_breakdown, value_counts) ==
    LET basic    == [total_transactions |-> Len(df),
                     date_range |-> [start |-> Isoformat(MinDate(df)),
                                     end |-> Isoformat(MaxDate(df))]]
        merged   == Update(Update(Update(basic,
                                         analyze_income(df, value_counts)),
                                  analyze_expenses(df, category_breakdown)),
                           analyze_spending_patterns(df, slope_sign))
        health   == calculate_financial_health_score(merged, profile)
        complete == Update(merged, [financial_health_score |-> health.value])
    IN  AttachAnalysis(profile, complete)

(***************************************************************************)
(* Inputs of the categorizer: descriptions of up to MaxWords fragments.    *)
(***************************************************************************)
Words == { "UBER", "food", "delivery", "XYZ123", "Payment", "gas",
           "credit card" }

Amounts == { 100, 1000, 1500, 10000, 15000, 50000 }

TransactionTypes == { "Debit", "Credit" }

RECURSIVE Join(_)
Join(ws) ==
    IF Len(ws) = 0 THEN ""
    ELSE IF Len(ws) = 1 THEN ws[1]
    ELSE ws[1] \o " " \o Join(Tail(ws))

Descriptions ==
    { Join(ws) : ws \in UNION { [1..n -> Words] : n \in 0..MaxWords } }

(***************************************************************************)
(* Specification of one categorize_transaction call.                       *)
(***************************************************************************)
IdleScore ==
    /\ analysis = [monthly_income_avg |-> [num |-> 0, den |-> 1],
                   monthly_expenses_avg |-> [num |-> 0, den |-> 1],
                   spending_trend |-> "stable"]
    /\ score = [raised |-> "", value |-> 0]

\* the columns of a parsed statement, and of a categorized table
ParsedColumns == { "date", "description", "amount", "type" }

CategorizedColumns == ParsedColumns \cup { "category" }

IdleSession ==
    /\ uploaded = << >>
    /\ corrected = << >>

IdleAnalyze ==
    /\ transactions_df = << >>
    /\ columns = ParsedColumns
    /\ user_profile = [financial_goals |-> [monthly_savings_target |-> 0]]
    /\ IdleSession

\* the variables of the app session outside the specifications of the app
IdleApp ==
    /\ assigned_by = << >>
    /\ csv_upload = None
    /\ chat_history = << >>
    /\ suggestions = None
    /\ raised = ""

\* the variables of the second categorizer outside its specification
IdleVariants ==
    /\ ai_category = ""
    /\ ml_category = "Other"

IdleCategorize ==
    /\ description = ""
    /\ amount = 0
    /\ transaction_type = "Debit"
    /\ category = ""

InitCategorize ==
    /\ pc = "categorize"
    /\ description \in Descriptions
    /\ amount \in Amounts
    /\ transaction_type \in TransactionTypes
    /\ category = ""
    /\ IdleScore
    /\ IdleAnalyze
    /\ IdleApp
    /\ IdleVariants

CategorizeTransaction ==
    /\ pc = "categorize"
    /\ category' = categorize_transaction(description, amount, transaction_type)
    /\ pc' = "done"
    /\ UNCHANGED << description, amount, transaction_type, analysis,
                    score, transactions_df, user_profile, columns, uploaded,
                    corrected,
                    ai_category, ml_category, assigned_by, csv_upload,
                    chat_history, suggestions, raised >>

NextCategorize == CategorizeTransaction

SpecCategorize == InitCategorize /\ [][NextCategorize]_vars

(***************************************************************************)
(* Specification of one categorize_transaction call whose description is   *)
(* one keyword of the table, exactly as listed.                            *)
(***************************************************************************)
KeywordsOf(i) ==
    { CATEGORY_KEYWORDS[i].keywords[j] :
        j \in DOMAIN CATEGORY_KEYWORDS[i].keywords }

ListedKeywords == UNION { KeywordsOf(i) : i \in DOMAIN CATEGORY_KEYWORDS }

InitKeywords ==
    /\ pc = "categorize"
    /\ description \in ListedKeywords
    /\ amount \in Amounts
    /\ transaction_type \in TransactionTypes
    /\ category = ""
    /\ IdleScore
    /\ IdleAnalyze
    /\ IdleApp
    /\ IdleVariants

NextKeywords == CategorizeTransaction

SpecKeywords == InitKeywords /\ [][NextKeywords]_vars

(***************************************************************************)
(* Specification of the two categorizers called on the same arguments.     *)
(***************************************************************************)
VariantDescriptions ==
    { Join(ws) : ws \in UNION { [1..n -> Words] : n \in 0..MaxVariantWords } }

\* list(CATEGORY_KEYWORDS.keys())[best_category_idx], or "Other"
MlOutcomes ==
    { CATEGORY_KEYWORDS[i].category : i \in DOMAIN CATEGORY_KEYWORDS }
    \cup { "Other" }

InitVariants ==
    /\ pc = "categorize_both"
    /\ description \in VariantDescriptions
    /\ amount \in Amounts
    /\ transaction_type \in TransactionTypes
    /\ category = ""
    /\ ai_category = ""
    /\ ml_category \in MlOutcomes
    /\ IdleScore
    /\ IdleAnalyze
    /\ IdleApp

CategorizeWithBoth ==
    /\ pc = "categorize_both"
    /\ category' = categorize_transaction(description, amount, transaction_type)
    /\ ai_category' = ai_categorize_transaction(description, amount,
                                                transaction_type, ml_category)
    /\ pc' = "done"
    /\ UNCHANGED << description, amount, transaction_type, analysis,
                    score, transactions_df, user_profile, columns, uploaded,
                    corrected, ml_category, assigned_by, csv_upload,
                    chat_history, suggestions, raised >>

NextVariants == CategorizeWithBoth

SpecVariants == InitVariants /\ [][NextVariants]_vars

(***************************************************************************)
(* Specification of one _calculate_financial_health_score call.            *)
(***************************************************************************)
IncomeAverages == { Rat(0, 1), Rat(50000, 1), Rat(100000, 3) }

ExpenseAverages ==
    { Rat(0, 1), Rat(39999, 1), Rat(40000, 1), Rat(41000, 1), Rat(42000, 1),
      Rat(45000, 1), Rat(47500, 1), Rat(50000, 1), Rat(60000, 1),
      Rat(80000, 3) }

SavingsTargets == { -1000, 0, 10000, 15000 }

SpendingTrends == { "increasing", "decreasing", "stable", "insufficient_data" }

InitScore ==
    /\ pc = "score"
    /\ analysis \in [monthly_income_avg : IncomeAverages,
                     monthly_expenses_avg : ExpenseAverages,
                     spending_trend : SpendingTrends]
    /\ user_profile \in
         { [financial_goals |-> [monthly_savings_target |-> t]] :
             t \in SavingsTargets }
    /\ score = [raised |-> "", value |-> 0]
    /\ transactions_df = << >>
    /\ columns = ParsedColumns
    /\ IdleSession
    /\ IdleCategorize
    /\ IdleApp
    /\ IdleVariants

CalculateFinancialHealthScore ==
    /\ pc = "score"
    /\ score' = calculate_financial_health_score(analysis, user_profile)
    /\ pc' = "done"
    /\ UNCHANGED << description, amount, transaction_type, category,
                    analysis, transactions_df, user_profile, columns,
                    uploaded, corrected,
                    ai_category, ml_category, assigned_by, csv_upload,
                    chat_history, suggestions, raised >>

NextScore == CalculateFinancialHealthScore

SpecScore == InitScore /\ [][NextScore]_vars

(***************************************************************************)
(* Specification of one analyze_transactions call on a categorized table.  *)
(***************************************************************************)
Dates ==
    { [kind |-> "str", year |-> 2023, month |-> 12, day |-> 15],
      [kind |-> "str", year |-> 2024, month |-> 1, day |-> 10],
      [kind |-> "str", year |-> 2024, month |-> 2, day |-> 20] }

RowAmounts == { 100, 200, 300 }

Rows ==
    { [date |-> d, description |-> "SALARY", amount |-> a,
       type |-> "Credit", category |-> "Income"] : d \in Dates, a \in RowAmounts }
    \cup
    { [date |-> d, description |-> "SWIGGY", amount |-> a,
       type |-> "Debit", category |-> "Food & Dining"] : d \in Dates, a \in RowAmounts }

Tables == UNION { [1..n -> Rows] : n \in 0..MaxRows }

ProfileTargets == { 0, 100 }

InitAnalyze ==
    /\ pc = "analyze"
    /\ transactions_df \in Tables
    /\ user_profile \in
         { [financial_goals |-> [monthly_savings_target |-> t]] :
             t \in ProfileTargets }
    /\ columns = CategorizedColumns
    /\ IdleSession
    /\ IdleCategorize
    /\ IdleScore
    /\ IdleApp
    /\ IdleVariants

AnalyzeTransactions ==
    /\ pc = "analyze"
    /\ IF Len(transactions_df) = 0
       THEN UNCHANGED << transactions_df, user_profile >>
       ELSE /\ transactions_df' = ToDatetimeColumn(transactions_df)
            /\ \E slope_sign \in TrendSlopeSigns(transactions_df'),
                  category_breakdown \in CategoryBreakdowns(transactions_df'),
                  value_counts \in ValueCounts(transactions_df') :
                  user_profile' =
                      analyze_transactions(transactions_df', user_profile,
                                           slope_sign, category_breakdown,
                                           value_counts)
    /\ pc' = "done"
    /\ UNCHANGED << description, amount, transaction_type, category,
                    analysis, score, columns, uploaded, corrected,
                    ai_category, ml_category, assigned_by, csv_upload,
                    chat_history, suggestions, raised >>

NextAnalyze == AnalyzeTransactions

SpecAnalyze == InitAnalyze /\ [][NextAnalyze]_vars

(***************************************************************************)
(* Specification of one analyze_transactions call on a table with many     *)
(* categories or many income descriptions: slot i of a table holds zero,   *)
(* one or two rows of the i-th category (or description) of 100 each.      *)
(***************************************************************************)
WideCategories ==
    << "Shopping", "Food & Dining", "Travel", "Bills & Utilities",
       "Healthcare", "Entertainment", "Education", "Transportation" >>

WideDescriptions ==
    << "SALARY", "BONUS", "REFUND", "DIVIDEND", "INTEREST", "CASHBACK",
       "FREELANCE", "DEPOSIT" >>

WideDate == [kind |-> "str", year |-> 2024, month |-> 1, day |-> 10]

ExpenseRow(i, a) ==
    [date |-> WideDate, description |-> "PURCHASE", amount |-> a,
     type |-> "Debit", category |-> WideCategories[i]]

IncomeRow(i, a) ==
    [date |-> WideDate, description |-> WideDescriptions[i], amount |-> a,
     type |-> "Credit", category |-> "Income"]

\* the slots holding at least j rows, in slot order
SlotsWith(f, j) ==
    SelectSeq([i \in 1..MaxCategories |-> i], LAMBDA i : f[i] >= j)

SlotCounts == [1..MaxCategories -> 0..2]

\* one income row, then the expense rows slot by slot, in two passes
WideExpenseTable(f) ==
    LET first  == SlotsWith(f, 1)
        second == SlotsWith(f, 2)
    IN  << IncomeRow(1, 100) >>
        \o [k \in 1..Len(first) |-> ExpenseRow(first[k], 100)]
        \o [k \in 1..Len(second) |-> ExpenseRow(second[k], 100)]

\* one expense row, then the income rows slot by slot, in two passes
WideIncomeTable(f) ==
    LET first  == SlotsWith(f, 1)
        second == SlotsWith(f, 2)
    IN  << ExpenseRow(1, 100) >>
        \o [k \in 1..Len(first) |-> IncomeRow(first[k], 100)]
        \o [k \in 1..Len(second) |-> IncomeRow(second[k], 100)]

\* eight categories of distinct amounts
EightAmounts == << 300, 800, 100, 500, 700, 200, 600, 400 >>

EightCategoryTable == [i \in 1..8 |-> ExpenseRow(i, EightAmounts[i])]

WideTables ==
    { WideExpenseTable(f) : f \in SlotCounts }
    \cup { WideIncomeTable(f) : f \in SlotCounts }
    \cup { EightCategoryTable }

InitWide ==
    /\ pc = "analyze"
    /\ transactions_df \in WideTables
    /\ user_profile = [financial_goals |-> [monthly_savings_target |-> 0]]
    /\ columns = CategorizedColumns
    /\ IdleSession
    /\ IdleCategorize
    /\ IdleScore
    /\ IdleApp
    /\ IdleVariants

NextWide == AnalyzeTransactions

SpecWide == InitWide /\ [][NextWide]_vars

(***************************************************************************)
(* Specification of a sequence of analyze_transactions calls on one        *)
(* profile, each call with a table of its own.                             *)
(***************************************************************************)
CallRows ==
    { [date |-> [kind |-> "str", year |-> 2024, month |-> 1, day |-> 10],
       description |-> "SALARY", amount |-> 100, type |-> "Credit",
       category |-> "Income"],
      [date |-> [kind |-> "str", year |-> 2024, month |-> 2, day |-> 20],
       description |-> "SALARY", amount |-> 200, type |-> "Credit",
       category |-> "Income"],
      [date |-> [kind |-> "str", year |-> 2023, month |-> 12, day |-> 15],
       description |-> "SWIGGY", amount |-> 300, type |-> "Debit",
       category |-> "Food & Dining"],
      [date |-> [kind |-> "str", year |-> 2024, month |-> 1, day |-> 10],
       description |-> "SWIGGY", amount |-> 100, type |-> "Debit",
       category |-> "Food & Dining"],
      [date |-> [kind |-> "str", year |-> 2024, month |-> 2, day |-> 20],
       description |-> "UBER", amount |-> 200, type |-> "Debit",
       category |-> "Transportation"] }

CallTables == UNION { [1..n -> CallRows] : n \in 0..MaxCallRows }

InitReanalyze ==
    /\ pc = "analyze"
    /\ transactions_df = << >>
    /\ user_profile \in
         { [financial_goals |-> [monthly_savings_target |-> t]] :
             t \in ProfileTargets }
    /\ columns = CategorizedColumns
    /\ IdleSession
    /\ IdleCategorize
    /\ IdleScore
    /\ IdleApp
    /\ IdleVariants

\* manager.analyze_transactions(table, user_profile) on the profile the
\* previous call returned
AnalyzeTransactionsAgain ==
    /\ pc \in { "analyze", "done" }
    /\ \E table \in CallTables :
          IF Len(table) = 0
          THEN /\ transactions_df' = table
               /\ UNCHANGED user_profile
          ELSE /\ transactions_df' = ToDatetimeColumn(table)
               /\ \E slope_sign \in TrendSlopeSigns(transactions_df'),
                     category_breakdown \in CategoryBreakdowns(transactions_df'),
                     value_counts \in ValueCounts(transactions_df') :
                     user_profile' =
                         analyze_transactions(transactions_df', user_profile,
                                              slope_sign, category_breakdown,
                                              value_counts)
    /\ pc' = "done"
    /\ UNCHANGED << description, amount, transaction_type, category,
                    analysis, score, columns, uploaded, corrected,
                    ai_category, ml_category, assigned_by, csv_upload,
                    chat_history, suggestions, raised >>

NextReanalyze == AnalyzeTransactionsAgain

SpecReanalyze == InitReanalyze /\ [][NextReanalyze]_vars

(***************************************************************************)
(* Specification of one categorize_transactions_batch call on a parsed     *)
(* table.                                                                  *)
(***************************************************************************)
BatchRows ==
    { [date |-> WideDate, description |-> "UBER food", amount |-> 100,
       type |-> "Debit"],
      [date |-> WideDate, description |-> "XYZ123", amount |-> 15000,
       type |-> "Debit"],
      [date |-> WideDate, description |-> "XYZ123", amount |-> 100,
       type |-> "Debit"],
      [date |-> WideDate, description |-> "XYZ123", amount |-> 100,
       type |-> "Credit"],
      [date |-> WideDate, description |-> "Payment", amount |-> 100,
       type |-> "Debit"],
      [date |-> WideDate, description |-> "GAS STATION", amount |-> 1500,
       type |-> "Debit"] }

BatchTables == UNION { [1..n -> BatchRows] : n \in 0..MaxBatchRows }

InitBatch ==
    /\ pc = "batch"
    /\ transactions_df \in BatchTables
    /\ columns = ParsedColumns
    /\ user_profile = [financial_goals |-> [monthly_savings_target |-> 0]]
    /\ IdleSession
    /\ IdleCategorize
    /\ IdleScore
    /\ IdleApp
    /\ IdleVariants

CategorizeTransactionsBatch ==
    /\ pc = "batch"
    /\ transactions_df' = categorize_transactions_batch(transactions_df)
    /\ columns' = BatchColumns(transactions_df, columns)
    /\ pc' = "done"
    /\ UNCHANGED << description, amount, transaction_type, category,
                    analysis, score, user_profile, uploaded, corrected,
                    ai_category, ml_category, assigned_by, csv_upload,
                    chat_history, suggestions, raised >>

NextBatch == CategorizeTransactionsBatch

SpecBatch == InitBatch /\ [][NextBatch]_vars

(***************************************************************************)
(* Specification of the pipeline: categorize_transactions on a parsed      *)
(* table, then analyze_transactions on the table it returns.               *)
(***************************************************************************)
PipelineDates ==
    { [kind |-> "str", year |-> 2024, month |-> 1, day |-> 10],
      [kind |-> "str", year |-> 2024, month |-> 2, day |-> 20] }

PipelineRows ==
    { [date |-> d, description |-> "SALARY", amount |-> 300,
       type |-> "Credit"] : d \in PipelineDates }
    \cup
    { [date |-> d, description |-> "SWIGGY", amount |-> a,
       type |-> "Debit"] : d \in PipelineDates, a \in { 100, 300 } }
    \cup
    { [date |-> d, description |-> "UBER", amount |-> 100,
       type |-> "Debit"] : d \in PipelineDates }
    \cup
    { [date |-> d, description |-> "Amazon refund", amount |-> a,
       type |-> "Credit"] : d \in PipelineDates, a \in { 100, 300 } }

PipelineTables == UNION { [1..n -> PipelineRows] : n \in 0..MaxPipelineRows }

InitPipeline ==
    /\ pc = "categorize_batch"
    /\ transactions_df \in PipelineTables
    /\ columns = ParsedColumns
    /\ user_profile = [financial_goals |-> [monthly_savings_target |-> 0]]
    /\ IdleSession
    /\ IdleCategorize
    /\ IdleScore
    /\ IdleApp
    /\ IdleVariants

\* categorize_transactions: the batch, whose result goes on to the analysis
CategorizeTransactions ==
    /\ pc = "categorize_batch"
    /\ transactions_df' = categorize_transactions_batch(transactions_df)
    /\ columns' = BatchColumns(transactions_df, columns)
    /\ pc' = "analyze"
    /\ UNCHANGED << description, amount, transaction_type, category,
                    analysis, score, user_profile, uploaded, corrected,
                    ai_category, ml_category, assigned_by, csv_upload,
                    chat_history, suggestions, raised >>

NextPipeline == CategorizeTransactions \/ AnalyzeTransactions

SpecPipeline == InitPipeline /\ [][NextPipeline]_vars

(***************************************************************************)
(* Specification of the upload page of the app: the statement held by the  *)
(* uploader is parsed into st.session_state.transactions, the table is     *)
(* auto-categorized, the user corrects categories in the editor; an empty  *)
(* transactions_df with no column stands for transactions = None.          *)
(***************************************************************************)
SessionRows ==
    { [date |-> WideDate, description |-> "UBER food", amount |-> 100,
       type |-> "Debit"],
      [date |-> WideDate, description |-> "XYZ123", amount |-> 100,
       type |-> "Debit"],
      [date |-> WideDate, description |-> "Payment", amount |-> 100,
       type |-> "Debit"] }

SessionTables == UNION { [1..n -> SessionRows] : n \in 1..MaxSessionRows }

\* the categories the user picks in the editor
CorrectionChoices == { "Travel", "Other" }

InitSession ==
    /\ pc = "session"
    /\ uploaded \in SessionTables
    /\ transactions_df = << >>
    /\ columns = {}
    /\ corrected = << >>
    /\ user_profile = [financial_goals |-> [monthly_savings_target |-> 0]]
    /\ IdleCategorize
    /\ IdleScore
    /\ IdleApp
    /\ IdleVariants

\* "Parse PDF and Extract Transactions", or the CSV block reading the file
\* the uploader holds: the session table becomes the parsed statement
ParseStatement ==
    /\ pc = "session"
    /\ transactions_df' = uploaded
    /\ columns' = ParsedColumns
    /\ UNCHANGED << pc, description, amount, transaction_type, category,
                    analysis, score, user_profile, uploaded, corrected,
                    ai_category, ml_category, assigned_by, csv_upload,
                    chat_history, suggestions, raised >>

\* "Auto-Categorize Transactions", offered while the table has no
\* 'category' column
AutoCategorize ==
    /\ pc = "session"
    /\ Len(transactions_df) > 0
    /\ "category" \notin columns
    /\ transactions_df' = categorize_transactions_batch(transactions_df)
    /\ columns' = BatchColumns(transactions_df, columns)
    /\ UNCHANGED << pc, description, amount, transaction_type, category,
                    analysis, score, user_profile, uploaded, corrected,
                    ai_category, ml_category, assigned_by, csv_upload,
                    chat_history, suggestions, raised >>

\* "Save Manual Changes" after the user picked a category for one of the
\* first 20 rows in the editor: transactions.update(edited_df)
SaveManualChanges ==
    /\ pc = "session"
    /\ "category" \in columns
    /\ \E i \in 1..Len(transactions_df), choice \in CorrectionChoices :
          /\ i <= 20
          /\ transactions_df' = [transactions_df EXCEPT ![i].category = choice]
          /\ corrected' = (i :> choice) @@ corrected
    /\ UNCHANGED << pc, description, amount, transaction_type, category,
                    analysis, score, user_profile, columns, uploaded,
                    ai_category, ml_category, assigned_by, csv_upload,
                    chat_history, suggestions, raised >>

NextSession == ParseStatement \/ AutoCategorize \/ SaveManualChanges

SpecSession == InitSession /\ [][NextSession]_vars

(***************************************************************************)
(* Specification of an app session: the handlers of app.py that write      *)
(* st.session_state, each with the rerun of the page it belongs to.        *)
(* transactions is None while columns is empty; assigned_by records, for   *)
(* every row of the session table, who wrote its category ("" while it     *)
(* has none); pc names the handler that ran last.                          *)
(***************************************************************************)
\* the table the uploader found is stored only without the guards
\* `if transactions:` and `if not df_cleaned.empty:`
StoresAnyTable(rows) == TRUE

\* `if transactions:` (PDF) and `if not df_cleaned.empty:` (CSV)
StoresTable(rows) == Len(rows) > 0

\* a date as the PDF parser returns it and as clean_transaction_data
\* leaves it
PdfDate == [kind |-> "date", year |-> 2024, month |-> 1, day |-> 10]

CsvDate == [kind |-> "datetime64", year |-> 2024, month |-> 2, day |-> 20]

AppRows(d) ==
    { [date |-> d, description |-> "SWIGGY", amount |-> 100,
       type |-> "Debit"] }

\* the lists parse_bank_statement returns
PdfFiles == UNION { [1..n -> AppRows(PdfDate)] : n \in 0..MaxAppRows }

\* rows of a CSV file that has a column named category
CsvCategorizedRows ==
    { [category |-> "Groceries"] @@ r : r \in AppRows(CsvDate) }

\* the cleaned tables of the CSV files whose columns are detected
CsvFiles ==
    { [columns |-> ParsedColumns, rows |-> t] :
        t \in UNION { [1..n -> AppRows(CsvDate)] : n \in 0..MaxAppRows } }
    \cup
    { [columns |-> CategorizedColumns, rows |-> t] :
        t \in UNION { [1..n -> CsvCategorizedRows] : n \in 0..MaxAppRows } }

\* the session table as [rows, columns, assigned_by]
SessionTable == [rows |-> transactions_df, columns |-> columns,
                 assigned_by |-> assigned_by]

\* the CSV block of show_upload_page, run on every rerun of the page: the
\* file the uploader holds is read, cleaned and stored again
CsvBlock(file, table) ==
    IF file # None /\ StoresTable(file.rows)
    THEN [rows |-> file.rows, columns |-> file.columns,
          assigned_by |->
              [i \in 1..Len(file.rows) |->
                  IF "category" \in file.columns THEN "file" ELSE ""]]
    ELSE table

InitApp ==
    /\ pc = "start"
    /\ transactions_df = << >>
    /\ columns = {}
    /\ user_profile = None
    /\ uploaded = << >>
    /\ corrected = << >>
    /\ IdleApp
    /\ IdleCategorize
    /\ IdleVariants
    /\ IdleScore

\* a file is put into the CSV uploader
UploadCsv ==
    /\ \E file \in CsvFiles :
          /\ csv_upload' = file
          /\ LET t == CsvBlock(file, SessionTable)
             IN  /\ transactions_df' = t.rows
                 /\ columns' = t.columns
                 /\ assigned_by' = t.assigned_by
    /\ pc' = "upload_csv"
    /\ raised' = ""
    /\ UNCHANGED << description, amount, transaction_type, category,
                    analysis, score, user_profile, uploaded, corrected,
                    ai_category, ml_category, chat_history, suggestions >>

\* the file is taken out of the CSV uploader
ClearCsvUpload ==
    /\ csv_upload # None
    /\ csv_upload' = None
    /\ pc' = "clear_csv"
    /\ raised' = ""
    /\ UNCHANGED << description, amount, transaction_type, category,
                    analysis, score, transactions_df, user_profile, columns,
                    uploaded, corrected, ai_category, ml_category,
                    assigned_by, chat_history, suggestions >>

\* "Parse PDF and Extract Transactions", followed by the CSV block
ParsePdf ==
    /\ \E transactions \in PdfFiles :
          LET parsed == IF StoresTable(transactions)
                        THEN [rows |-> transactions,
                              columns |-> ParsedColumns,
                              assigned_by |->
                                  [i \in 1..Len(transactions) |-> ""]]
                        ELSE SessionTable
              t      == CsvBlock(csv_upload, parsed)
          IN  /\ transactions_df' = t.rows
              /\ columns' = t.columns
              /\ assigned_by' = t.assigned_by
    /\ pc' = "parse_pdf"
    /\ raised' = ""
    /\ UNCHANGED << description, amount, transaction_type, category,
                    analysis, score, user_profile, uploaded, corrected,
                    ai_category, ml_category, csv_upload, chat_history,
                    suggestions >>

\* "Auto-Categorize Transactions": the button is there while the table has
\* no 'category' column; the rerun reads the CSV again before the handler
AutoCategorizeSession ==
    /\ columns # {}
    /\ "category" \notin columns
    /\ LET t == CsvBlock(csv_upload, SessionTable)
       IN  /\ transactions_df' = categorize_transactions_batch(t.rows)
           /\ columns' = BatchColumns(t.rows, t.columns)
           /\ assigned_by' = [i \in 1..Len(t.rows) |-> "categorizer"]
    /\ pc' = "auto_categorize"
    /\ raised' = ""
    /\ UNCHANGED << description, amount, transaction_type, category,
                    analysis, score, user_profile, uploaded, corrected,
                    ai_category, ml_category, csv_upload, chat_history,
                    suggestions >>

\* "Save Manual Changes" after the user picked a category for one of the
\* first 20 rows: the rerun reads the CSV again, and the button and its
\* handler exist only if the table then has a 'category' column
SaveManualChangesSession ==
    /\ columns # {}
    /\ "category" \in columns
    /\ \E i \in 1..Len(transactions_df), choice \in CorrectionChoices :
          LET t == CsvBlock(csv_upload, SessionTable)
          IN  /\ i <= 20
              /\ columns' = t.columns
              /\ IF "category" \in t.columns /\ i <= Len(t.rows)
                 THEN /\ transactions_df' =
                            [t.rows EXCEPT ![i].category = choice]
                      /\ assigned_by' = [t.assigned_by EXCEPT ![i] = "user"]
                 ELSE /\ transactions_df' = t.rows
                      /\ assigned_by' = t.assigned_by
    /\ pc' = "save_manual_changes"
    /\ raised' = ""
    /\ UNCHANGED << description, amount, transaction_type, category,
                    analysis, score, user_profile, uploaded, corrected,
                    ai_category, ml_category, csv_upload, chat_history,
                    suggestions >>

\* create_user_profile
create_user_profile(user_data) ==
    [financial_goals |->
        [monthly_savings_target |-> user_data.monthly_savings_target]]

\* "Create Profile": the form of show_profile_page, shown when the table
\* has a 'category' column and the session holds no profile
CreateProfile ==
    /\ columns # {}
    /\ "category" \in columns
    /\ user_profile = None
    /\ \E target \in ProfileTargets :
          LET profile ==
                  create_user_profile([monthly_savings_target |-> target])
          IN  IF Len(transactions_df) = 0
              THEN /\ user_profile' = profile
                   /\ UNCHANGED transactions_df
              ELSE /\ transactions_df' = ToDatetimeColumn(transactions_df)
                   /\ \E slope_sign \in TrendSlopeSigns(transactions_df'),
                         category_breakdown \in
                             CategoryBreakdowns(transactions_df'),
                         value_counts \in ValueCounts(transactions_df') :
                         user_profile' =
                             analyze_transactions(transactions_df', profile,
                                                  slope_sign,
                                                  category_breakdown,
                                                  value_counts)
    /\ pc' = "create_profile"
    /\ raised' = ""
    /\ UNCHANGED << description, amount, transaction_type, category,
                    analysis, score, columns, uploaded, corrected,
                    ai_category, ml_category, assigned_by, csv_upload,
                    chat_history, suggestions >>

\* "Update Profile"
UpdateProfile ==
    /\ columns # {}
    /\ "category" \in columns
    /\ user_profile # None
    /\ user_profile' = None
    /\ pc' = "update_profile"
    /\ raised' = ""
    /\ UNCHANGED << description, amount, transaction_type, category,
                    analysis, score, transactions_df, columns, uploaded,
                    corrected, ai_category, ml_category, assigned_by,
                    csv_upload, chat_history, suggestions >>

\* "Send" of show_chat_page: the question is appended, the analysis is read
\* from the profile when there is one, the answer is appended
SendChat ==
    /\ Len(chat_history) + 2 <= MaxChatMessages
    /\ IF user_profile # None
          /\ "transaction_analysis" \notin DOMAIN user_profile
       THEN /\ chat_history' = Append(chat_history, "user")
            /\ raised' = "KeyError"
       ELSE /\ chat_history' =
                  Append(Append(chat_history, "user"), "assistant")
            /\ raised' = ""
    /\ pc' = "send_chat"
    /\ UNCHANGED << description, amount, transaction_type, category,
                    analysis, score, transactions_df, user_profile, columns,
                    uploaded, corrected, ai_category, ml_category,
                    assigned_by, csv_upload, suggestions >>

\* "Generate New Suggestions" of show_suggestions_page
GenerateSuggestions ==
    /\ user_profile # None
    /\ "transaction_analysis" \in DOMAIN user_profile
    /\ columns = {} \/ "category" \in columns
    /\ suggestions' = [suggestions |-> "generated"]
    /\ pc' = "generate_suggestions"
    /\ raised' = ""
    /\ UNCHANGED << description, amount, transaction_type, category,
                    analysis, score, transactions_df, user_profile, columns,
                    uploaded, corrected, ai_category, ml_category,
                    assigned_by, csv_upload, chat_history >>

NextApp ==
    \/ UploadCsv
    \/ ClearCsvUpload
    \/ ParsePdf
    \/ AutoCategorizeSession
    \/ SaveManualChangesSession
    \/ CreateProfile
    \/ UpdateProfile
    \/ SendChat
    \/ GenerateSuggestions

SpecApp == InitApp /\ [][NextApp]_vars

(***************************************************************************)
(* Claims about categorize_transaction (checked under SpecCategorize).     *)
(***************************************************************************)
\* indices of the categories that have a keyword in the lower-cased text
MatchingCategories(desc) ==
    LET lowered == Lower(desc)
    IN  { i \in 1..Len(CATEGORY_KEYWORDS) :
            \E j \in 1..Len(CATEGORY_KEYWORDS[i].keywords) :
                Contains(lowered, CATEGORY_KEYWORDS[i].keywords[j]) }

\* C1: a description containing keywords of two or more categories gets the
\* category declared first in CATEGORY_KEYWORDS, whatever the amount, the
\* type and the position of the keywords in the text.
C1_KeywordPrecedence ==
    pc = "done" =>
        LET matching == MatchingCategories(description)
        IN  Cardinality(matching) >= 2
               => \E i \in matching :
                     /\ \A j \in matching : i <= j
                     /\ category = CATEGORY_KEYWORDS[i].category

C1_Witness ==
    /\ pc = "done"
    /\ description = "UBER food delivery"
    /\ MatchingCategories(description) = {1, 2}
    /\ category = "Food & Dining"

\* C2: when no keyword matches (the empty description included) the result
\* is Income for a Credit, else Shopping above 10000, else Bills & Utilities
\* above 1000, else Other; both thresholds are strict.
C2_FallbackChain ==
    (pc = "done" /\ MatchingCategories(description) = {})
        => /\ transaction_type = "Credit" => category = "Income"
           /\ (transaction_type # "Credit" /\ amount > 10000)
                 => category = "Shopping"
           /\ (transaction_type # "Credit" /\ amount <= 10000 /\ amount > 1000)
                 => category = "Bills & Utilities"
           /\ (transaction_type # "Credit" /\ amount <= 1000)
                 => category = "Other"

C2_Witness ==
    /\ pc = "done"
    /\ description = ""
    /\ transaction_type = "Debit"
    /\ amount = 10000
    /\ category = "Bills & Utilities"

\* C3: every call returns, and returns one of the 11 members of CATEGORIES.
C3_TotalAndInRange ==
    pc = "done" => \E i \in 1..Len(CATEGORIES) : category = CATEGORIES[i]

C3_Witness ==
    /\ pc = "done"
    /\ description = "XYZ123 delivery"
    /\ transaction_type = "Debit"
    /\ amount = 100
    /\ category = "Other"

\* C4: a Debit transaction is never categorized as Income.
C4_DebitNeverIncome ==
    (pc = "done" /\ transaction_type = "Debit") => category # "Income"

(***************************************************************************)
(* Claims about _calculate_financial_health_score (checked under           *)
(* SpecScore).  The expected adjustments are stated on cross-multiplied    *)
(* integers: with income = a/b and expenses = c/d,                         *)
(*   income - expenses = SavingsNum / (b*d)  and  income = IncomeNum / (b*d) *)
(***************************************************************************)
SavingsNum ==
    analysis.monthly_income_avg.num * analysis.monthly_expenses_avg.den
      - analysis.monthly_expenses_avg.num * analysis.monthly_income_avg.den

IncomeNum ==
    analysis.monthly_income_avg.num * analysis.monthly_expenses_avg.den

CommonDen ==
    analysis.monthly_income_avg.den * analysis.monthly_expenses_avg.den

TargetOf == user_profile.financial_goals.monthly_savings_target

ExpectedRatio ==
    IF 5 * SavingsNum > IncomeNum THEN 20
    ELSE IF 10 * SavingsNum > IncomeNum THEN 10
    ELSE IF SavingsNum > 0 THEN 5
    ELSE -20

ExpectedTarget ==
    IF TargetOf <= 0 THEN 0
    ELSE IF SavingsNum >= TargetOf * CommonDen THEN 15
    ELSE IF 5 * SavingsNum >= 4 * TargetOf * CommonDen THEN 10
    ELSE IF 2 * SavingsNum >= TargetOf * CommonDen THEN 5
    ELSE 0

ExpectedTrend ==
    CASE analysis.spending_trend = "decreasing" -> 10
      [] analysis.spending_trend = "increasing" -> -10
      [] OTHER -> 0

\* C5: with income > 0 the score is 50 + the savings-ratio adjustment (+20
\* above 0.20, +10 above 0.10, +5 above 0, else -20; strict comparisons)
\* + the target adjustment + the trend adjustment; income 50000, expenses
\* 40000, target 0 and trend stable give exactly 60.
C5_ScoreFormula ==
    (pc = "done" /\ IncomeNum > 0)
        => /\ score.raised = ""
           /\ score.value = 50 + ExpectedRatio + ExpectedTarget + ExpectedTrend
           /\ ( /\ REq(analysis.monthly_income_avg, Rat(50000, 1))
                /\ REq(analysis.monthly_expenses_avg, Rat(40000, 1))
                /\ TargetOf = 0
                /\ analysis.spending_trend = "stable" ) => score.value = 60

C5_Witness ==
    /\ pc = "done"
    /\ analysis.monthly_income_avg = Rat(50000, 1)
    /\ analysis.monthly_expenses_avg = Rat(40000, 1)
    /\ TargetOf = 0
    /\ analysis.spending_trend = "stable"
    /\ score.value = 60

\* C6: for every analysis record and savings target the score is an
\* integer between 0 and 100.
C6_ScoreBounds ==
    pc = "done" => (score.raised = "" /\ score.value \in 0..100)

C6_Witness ==
    /\ pc = "done"
    /\ score.raised = ""
    /\ score.value = 95
    /\ analysis.spending_trend = "decreasing"

\* C7: with monthly_income_avg = 0 no division is performed, the ratio and
\* target adjustments are skipped whatever the target and the expenses, and
\* the trend adjustment still applies: 60 for decreasing, 40 for
\* increasing, 50 for stable and insufficient_data.
C7_ZeroIncomeGuard ==
    (pc = "done" /\ analysis.monthly_income_avg.num = 0)
        => /\ score.raised = ""
           /\ analysis.spending_trend = "decreasing" => score.value = 60
           /\ analysis.spending_trend = "increasing" => score.value = 40
           /\ analysis.spending_trend \in {"stable", "insufficient_data"}
                 => score.value = 50

C7_Witness ==
    /\ pc = "done"
    /\ analysis.monthly_income_avg.num = 0
    /\ analysis.monthly_expenses_avg.num > 0
    /\ TargetOf > 0
    /\ analysis.spending_trend = "increasing"
    /\ score.value = 40

\* C8: with income > 0 and target > 0 the score gains +15 when
\* income - expenses >= target, else +10 when >= 0.8 x target, else +5 when
\* >= 0.5 x target, else nothing (inclusive comparisons); with target <= 0
\* there is no target adjustment.
C8_TargetTiers ==
    (pc = "done" /\ IncomeNum > 0)
        => LET gain == score.value - 50 - ExpectedRatio - ExpectedTrend
           IN  /\ TargetOf <= 0 => gain = 0
               /\ TargetOf > 0 =>
                    /\ SavingsNum >= TargetOf * CommonDen => gain = 15
                    /\ ( SavingsNum < TargetOf * CommonDen
                         /\ 10 * SavingsNum >= 8 * TargetOf * CommonDen )
                          => gain = 10
                    /\ ( 10 * SavingsNum < 8 * TargetOf * CommonDen
                         /\ 10 * SavingsNum >= 5 * TargetOf * CommonDen )
                          => gain = 5
                    /\ 10 * SavingsNum < 5 * TargetOf * CommonDen => gain = 0

\* actual savings 8000 against a target of 10000: exactly 0.8 x target
C8_Witness ==
    /\ pc = "done"
    /\ analysis.monthly_income_avg = Rat(50000, 1)
    /\ analysis.monthly_expenses_avg = Rat(42000, 1)
    /\ TargetOf = 10000
    /\ analysis.spending_trend = "stable"
    /\ score.value = 50 + 10 + 10

(***************************************************************************)
(* Claims about the analyzers (checked under SpecAnalyze).                 *)
(***************************************************************************)
AnalysisOf == user_profile.transaction_analysis

HasAnalysis == "transaction_analysis" \in DOMAIN user_profile

IncomeIndices ==
    { i \in 1..Len(transactions_df) : transactions_df[i].category = "Income" }

ExpenseIndices ==
    { i \in 1..Len(transactions_df) : transactions_df[i].category # "Income" }

RECURSIVE AmountOver(_)
\* sum of the amounts of the rows at the given indices
AmountOver(I) ==
    IF I = {} THEN 0
    ELSE LET i == CHOOSE k \in I : TRUE
         IN  transactions_df[i].amount + AmountOver(I \ {i})

\* the distinct year-month buckets holding a row at the given indices
MonthsOf(I) ==
    { << transactions_df[i].date.year, transactions_df[i].date.month >> : i \in I }

\* the non-Income amount summed over one year-month bucket
SpentIn(ym) ==
    AmountOver({ i \in ExpenseIndices :
                   << transactions_df[i].date.year,
                      transactions_df[i].date.month >> = ym })

\* C9: total_income is the sum of the Income rows' amounts and
\* monthly_income_avg is that sum divided by the number of distinct
\* year-month buckets holding an Income row (likewise for the non-Income
\* rows); a month without such a row does not count as a zero.
C9_MonthlyAveraging ==
    (pc = "done" /\ Len(transactions_df) > 0)
        => /\ AnalysisOf.total_income = AmountOver(IncomeIndices)
           /\ AnalysisOf.total_expenses = AmountOver(ExpenseIndices)
           /\ IncomeIndices # {} =>
                AnalysisOf.monthly_income_avg.num * Cardinality(MonthsOf(IncomeIndices))
                  = AmountOver(IncomeIndices) * AnalysisOf.monthly_income_avg.den
           /\ ExpenseIndices # {} =>
                AnalysisOf.monthly_expenses_avg.num * Cardinality(MonthsOf(ExpenseIndices))
                  = AmountOver(ExpenseIndices) * AnalysisOf.monthly_expenses_avg.den

\* income 100 in 2023-12 and 300 in 2024-02, none in 2024-01: average 200
C9_Witness ==
    /\ pc = "done"
    /\ Len(transactions_df) = 3
    /\ MonthsOf(IncomeIndices) = { << 2023, 12 >>, << 2024, 2 >> }
    /\ MonthsOf(ExpenseIndices) = { << 2024, 1 >> }
    /\ AnalysisOf.total_income = 400
    /\ REq(AnalysisOf.monthly_income_avg, Rat(200, 1))

\* the populated spending months in chronological order
SpendingMonths ==
    SortedAscending({ ym[1] * 12 + (ym[2] - 1) : ym \in MonthsOf(ExpenseIndices) })

RECURSIVE WeightedSpending(_, _)
\* Sum of i * y_i over the spending months from position k on
WeightedSpending(months, k) ==
    IF k > Len(months) THEN 0
    ELSE (k - 1) * SpentIn(<< months[k] \div 12, (months[k] % 12) + 1 >>)
           + WeightedSpending(months, k + 1)

\* C10: spending_trend is insufficient_data with one populated month and
\* otherwise follows the sign of n*Sum(i*y_i) - Sum(i)*Sum(y_i):
\* increasing if positive, decreasing if negative, stable if zero.
C10_TrendClassification ==
    (pc = "done" /\ ExpenseIndices # {})
        => LET n     == Len(SpendingMonths)
               slope == n * WeightedSpending(SpendingMonths, 1)
                          - ((n * (n - 1)) \div 2) * AmountOver(ExpenseIndices)
           IN  /\ n = 1 => AnalysisOf.spending_trend = "insufficient_data"
               /\ (n > 1 /\ slope > 0) => AnalysisOf.spending_trend = "increasing"
               /\ (n > 1 /\ slope < 0) => AnalysisOf.spending_trend = "decreasing"
               /\ (n > 1 /\ slope = 0) => AnalysisOf.spending_trend = "stable"

YearMonthText(ym) ==
    ToString(ym[1]) \o "-" \o (IF ym[2] < 10 THEN "0" ELSE "") \o ToString(ym[2])

Earlier(ym1, ym2) ==
    ym1[1] < ym2[1] \/ (ym1[1] = ym2[1] /\ ym1[2] < ym2[2])

\* C18: highest_spending_month (lowest_spending_month) is the month whose
\* summed non-Income amount is the maximum (minimum) over the populated
\* months, the chronologically first of them when several months tie; with
\* a single populated month both name that month.
C18_ExtremeMonths ==
    (pc = "done" /\ ExpenseIndices # {})
        => LET months == MonthsOf(ExpenseIndices)
               IsHighest(m) ==
                   /\ \A o \in months : SpentIn(m) >= SpentIn(o)
                   /\ \A o \in months : SpentIn(o) = SpentIn(m) => ~Earlier(o, m)
               IsLowest(m) ==
                   /\ \A o \in months : SpentIn(m) <= SpentIn(o)
                   /\ \A o \in months : SpentIn(o) = SpentIn(m) => ~Earlier(o, m)
           IN  /\ \E m \in months :
                     /\ IsHighest(m)
                     /\ AnalysisOf.highest_spending_month = YearMonthText(m)
               /\ \E m \in months :
                     /\ IsLowest(m)
                     /\ AnalysisOf.lowest_spending_month = YearMonthText(m)
               /\ Cardinality(months) = 1
                     => \A m \in months :
                           /\ AnalysisOf.highest_spending_month = YearMonthText(m)
                           /\ AnalysisOf.lowest_spending_month = YearMonthText(m)

\* December and February tie for the maximum, January is the minimum
C18_Witness ==
    /\ pc = "done"
    /\ MonthsOf(ExpenseIndices) = { << 2023, 12 >>, << 2024, 1 >>, << 2024, 2 >> }
    /\ SpentIn(<< 2023, 12 >>) = 300
    /\ SpentIn(<< 2024, 1 >>) = 100
    /\ SpentIn(<< 2024, 2 >>) = 300
    /\ AnalysisOf.highest_spending_month = "2023-12"
    /\ AnalysisOf.lowest_spending_month = "2024-01"

(***************************************************************************)
(* Claims about the category breakdown and the income sources (checked     *)
(* under SpecWide).                                                        *)
(***************************************************************************)
ExpenseCategories == { transactions_df[i].category : i \in ExpenseIndices }

IncomeDescriptions == { transactions_df[i].description : i \in IncomeIndices }

\* the keys of a sequence of [key, value] entries are pairwise distinct
DistinctKeys(entries) ==
    \A k, l \in 1..Len(entries) : entries[k].key = entries[l].key => k = l

Descending(entries) ==
    \A k \in 1..(Len(entries) - 1) : entries[k].value >= entries[k + 1].value

\* C11: expense_breakdown has one entry per category that has a non-Income
\* row, no other entry, each entry carries the sum of the amounts of that
\* category's rows, and the entries are in descending order of amount.
C11_ExpenseBreakdown ==
    (pc = "done" /\ Len(transactions_df) > 0)
        => LET breakdown == AnalysisOf.expense_breakdown
           IN  /\ { breakdown[k].key : k \in 1..Len(breakdown) } = ExpenseCategories
               /\ DistinctKeys(breakdown)
               /\ \A k \in 1..Len(breakdown) :
                     breakdown[k].value =
                         AmountOver({ i \in ExpenseIndices :
                             transactions_df[i].category = breakdown[k].key })
               /\ Descending(breakdown)

\* an Income row and three spending categories, one of them with two rows
C11_Witness ==
    /\ pc = "done"
    /\ IncomeIndices # {}
    /\ Len(AnalysisOf.expense_breakdown) = 3
    /\ AnalysisOf.expense_breakdown[1].value = 200
    /\ AnalysisOf.expense_breakdown[2].value = 100
    /\ Cardinality(ExpenseIndices) = 4

\* C12: top_spending_categories is the first min(5, k) entries of the k
\* entries of expense_breakdown, in the same order; with eight categories
\* it has exactly five entries; no category left out has a larger amount
\* than a category kept.
C12_TopSpendingCategories ==
    (pc = "done" /\ Len(transactions_df) > 0)
        => LET breakdown == AnalysisOf.expense_breakdown
               top       == AnalysisOf.top_spending_categories
               k         == Cardinality(ExpenseCategories)
           IN  /\ Len(top) = (IF k < 5 THEN k ELSE 5)
               /\ \A j \in 1..Len(top) : top[j] = breakdown[j]
               /\ k = 8 => Len(top) = 5
               /\ \A c \in ExpenseCategories :
                     (\A j \in 1..Len(top) : top[j].key # c)
                        => \A j \in 1..Len(top) :
                              top[j].value >=
                                  AmountOver({ i \in ExpenseIndices :
                                      transactions_df[i].category = c })

\* the table of eight categories: the five largest are kept, largest first
C12_Witness ==
    /\ pc = "done"
    /\ Cardinality(ExpenseCategories) = 8
    /\ Len(AnalysisOf.expense_breakdown) = 8
    /\ AnalysisOf.top_spending_categories =
           << [key |-> "Food & Dining", value |-> 800],
              [key |-> "Healthcare", value |-> 700],
              [key |-> "Education", value |-> 600],
              [key |-> "Bills & Utilities", value |-> 500],
              [key |-> "Transportation", value |-> 400] >>

\* the number of Income rows carrying the description
CountOf(d) ==
    Cardinality({ i \in IncomeIndices : transactions_df[i].description = d })

\* the index of the first Income row carrying the description
FirstSeen(d) ==
    CHOOSE i \in IncomeIndices :
        /\ transactions_df[i].description = d
        /\ \A j \in IncomeIndices :
              transactions_df[j].description = d => i <= j

\* C19: income_sources lists min(5, k) of the k distinct descriptions of
\* the Income rows, each with the number of Income rows carrying it, in
\* descending order of count; no description left out occurs more often
\* than a listed one; descriptions of equal count are ranked by the order
\* in which they are first encountered in the table.
C19_IncomeSources ==
    (pc = "done" /\ IncomeIndices # {})
        => LET sources == AnalysisOf.income_sources
               k       == Cardinality(IncomeDescriptions)
               listed  == { sources[j].key : j \in 1..Len(sources) }
           IN  /\ Len(sources) = (IF k < 5 THEN k ELSE 5)
               /\ listed \subseteq IncomeDescriptions
               /\ DistinctKeys(sources)
               /\ \A j \in 1..Len(sources) :
                     sources[j].value = CountOf(sources[j].key)
               /\ Descending(sources)
               /\ \A d \in IncomeDescriptions \ listed :
                     \A j \in 1..Len(sources) :
                        \/ CountOf(d) < sources[j].value
                        \/ /\ CountOf(d) = sources[j].value
                           /\ FirstSeen(sources[j].key) < FirstSeen(d)
               /\ \A j \in 1..(Len(sources) - 1) :
                     sources[j].value = sources[j + 1].value
                        => FirstSeen(sources[j].key) < FirstSeen(sources[j + 1].key)

(***************************************************************************)
(* Claims about repeated analysis (checked under SpecReanalyze).           *)
(***************************************************************************)
\* the analysis records a call on the table alone can attach to a profile
\* that carries nothing but the goals of user_profile
FreshAnalyses ==
    LET bare == [financial_goals |-> user_profile.financial_goals]
    IN  { analyze_transactions(transactions_df, bare, slope_sign,
                               category_breakdown, value_counts).transaction_analysis :
            slope_sign \in TrendSlopeSigns(transactions_df),
            category_breakdown \in CategoryBreakdowns(transactions_df),
            value_counts \in ValueCounts(transactions_df) }

\* the profile carries the analysis of the table of the last call and
\* nothing of an earlier analysis
AnalysisIsOfLastTable ==
    /\ HasAnalysis
    /\ AnalysisOf.total_transactions = Len(transactions_df)
    /\ Len(transactions_df) > 0
          => /\ AnalysisOf \in FreshAnalyses
             /\ "monthly_spending" \in DOMAIN AnalysisOf <=> ExpenseIndices # {}

\* C14 as stated: after every analyze_transactions call on a profile, a
\* call with an empty table included, the profile carries an analysis and
\* it is the one computed from the table of that call alone.
C14_ReplacedWholesale == pc = "done" => AnalysisIsOfLastTable

(***************************************************************************)
(* Claims about categorize_transactions_batch (checked under SpecBatch).   *)
(***************************************************************************)
\* C15: after categorize_transactions_batch on a non-empty table the table
\* has a category column and the category of every row is what
\* categorize_transaction returns for the description, amount and type of
\* that row; no category is left empty.
C15_BatchIsPerRowMap ==
    (pc = "done" /\ Len(transactions_df) > 0)
        => /\ "category" \in columns
           /\ \A i \in 1..Len(transactions_df) :
                 /\ transactions_df[i].category =
                        categorize_transaction(transactions_df[i].description,
                                               transactions_df[i].amount,
                                               transactions_df[i].type)
                 /\ transactions_df[i].category # ""
                 /\ \E c \in 1..Len(CATEGORIES) :
                        transactions_df[i].category = CATEGORIES[c]

\* a keyword row, a credit without keyword and a large debit without keyword
C15_Witness ==
    /\ pc = "done"
    /\ Len(transactions_df) = 3
    /\ transactions_df[1].description = "UBER food"
    /\ transactions_df[1].category = "Food & Dining"
    /\ transactions_df[2].type = "Credit"
    /\ transactions_df[2].category = "Income"
    /\ transactions_df[3].amount = 15000
    /\ transactions_df[3].category = "Shopping"

\* a row of the categorized table as it was parsed
AsParsed(row) == [f \in ParsedColumns |-> row[f]]

\* C16: in the table a batch returns, the category of a row is the one the
\* batch gives that row when it is alone in a table, and the one it gives
\* that row when the rows are handed over in any other order; rows with
\* equal description, amount and type carry equal categories.
C16_OrderIndependent ==
    (pc = "done" /\ Len(transactions_df) > 0)
        => LET n      == Len(transactions_df)
               parsed == [i \in 1..n |-> AsParsed(transactions_df[i])]
           IN  /\ \A i \in 1..n :
                     categorize_transactions_batch(<< parsed[i] >>)
                         = << transactions_df[i] >>
               /\ \A order \in Permutations(1..n) :
                     categorize_transactions_batch([k \in 1..n |-> parsed[order[k]]])
                         = [k \in 1..n |-> transactions_df[order[k]]]
               /\ \A i, j \in 1..n :
                     parsed[i] = parsed[j]
                        => transactions_df[i].category = transactions_df[j].category

\* the same row twice, once first and once after a row with a keyword
C16_Witness ==
    /\ pc = "done"
    /\ Len(transactions_df) = 3
    /\ transactions_df[1].description = "XYZ123"
    /\ transactions_df[2].description = "GAS STATION"
    /\ AsParsed(transactions_df[3]) = AsParsed(transactions_df[1])
    /\ transactions_df[1].category = "Other"
    /\ transactions_df[2].category = "Transportation"
    /\ transactions_df[3].category = "Other"

\* C17: categorize_transactions_batch on a table without rows returns the
\* table as it is: no row and no column is added.
C17_EmptyBatchUnchanged ==
    [][ (pc = "batch" /\ Len(transactions_df) = 0)
           => /\ transactions_df' = transactions_df
              /\ columns' = columns ]_vars

C17_Witness ==
    /\ pc = "done"
    /\ Len(transactions_df) = 0
    /\ columns = ParsedColumns

(***************************************************************************)
(* Claim about the categories over a session (checked under SpecSession).  *)
(***************************************************************************)
\* C20: a category, once assigned, changes only through a correction of
\* the user; in particular no categorization run overwrites a category the
\* user corrected: whenever the table carries categories, a row the user
\* corrected carries the category the user last saved for it.
C20_CorrectionKept ==
    \A i \in DOMAIN corrected :
        (i <= Len(transactions_df) /\ "category" \in columns)
            => transactions_df[i].category = corrected[i]

(***************************************************************************)
(* C24: no keyword is shadowed: a description that is exactly one keyword  *)
(* listed under a category is categorized as that category, for every      *)
(* amount and type.                                                        *)
(***************************************************************************)
C24_NoKeywordShadowed ==
    pc = "done" =>
        \A i \in DOMAIN CATEGORY_KEYWORDS :
            description \in KeywordsOf(i) =>
                category = CATEGORY_KEYWORDS[i].category

(***************************************************************************)
(* C28: the clamp is never active: the sum before the final statement      *)
(* lies between 20 and 95 and is the returned score, and the -20 penalty   *)
(* of the savings ratio never comes together with a positive savings-      *)
(* target bonus.                                                           *)
(***************************************************************************)
C28_ClampNeverActive ==
    (pc = "done" /\ score.raised = "") =>
        LET raw == UnclampedScore(analysis, user_profile)
        IN  /\ raw \in 20..95
            /\ score.value = raw
            /\ (IncomeNum > 0 /\ SavingsNum <= 0) =>
                  raw = 50 - 20 + ExpectedTrend

\* the penalty applies while a savings target is set, and the sum is at its
\* lower end
C28_Witness ==
    /\ pc = "done"
    /\ score.raised = ""
    /\ TargetOf > 0
    /\ IncomeNum > 0
    /\ SavingsNum <= 0
    /\ score.value = 20

(***************************************************************************)
(* C29: the score is monotone in expenses: with the same income average,   *)
(* trend and savings target, a larger monthly_expenses_avg never gives a   *)
(* higher score.                                                           *)
(***************************************************************************)
ScoreWithExpenses(e) ==
    calculate_financial_health_score(
        [analysis EXCEPT !.monthly_expenses_avg = e], user_profile)

C29_MonotoneInExpenses ==
    (pc = "done" /\ score.raised = "") =>
        \A e \in ExpenseAverages :
            RGt(e, analysis.monthly_expenses_avg) =>
                /\ ScoreWithExpenses(e).raised = ""
                /\ ScoreWithExpenses(e).value <= score.value

\* a larger expense average that lowers the score strictly
C29_Witness ==
    /\ pc = "done"
    /\ score.raised = ""
    /\ \E e \in ExpenseAverages :
          /\ RGt(e, analysis.monthly_expenses_avg)
          /\ ScoreWithExpenses(e).value < score.value

(***************************************************************************)
(* C22: analysis is read-only over the table: a call of                    *)
(* analyze_transactions leaves the table it is given as it was, the same   *)
(* rows in the same order with the same date, description, amount, type    *)
(* and category.                                                           *)
(***************************************************************************)
C22_TableUnchanged ==
    [][pc = "analyze" => transactions_df' = transactions_df]_vars

(***************************************************************************)
(* C26: overspending is always penalised: for a categorized table with     *)
(* total_income > 0 and total_expenses >= total_income the score holds     *)
(* the -20 adjustment and no positive bonus, so it is at most 40.          *)
(***************************************************************************)
C26_OverspendingPenalised ==
    (/\ pc = "done"
     /\ Len(transactions_df) > 0
     /\ AnalysisOf.total_income > 0
     /\ AnalysisOf.total_expenses >= AnalysisOf.total_income)
        => AnalysisOf.financial_health_score <= 40

\* the trend adjustment that belongs to the trend written into the analysis
TrendBonusOf(an) ==
    CASE an.spending_trend = "decreasing" -> 10
      [] an.spending_trend = "increasing" -> -10
      [] OTHER -> 0

\* the monthly expense average is at least the monthly income average, each
\* taken over the months that hold a row of its own kind
OverspendingByAverages ==
    /\ AmountOver(IncomeIndices) > 0
    /\ ExpenseIndices # {}
    /\ AmountOver(ExpenseIndices) * Cardinality(MonthsOf(IncomeIndices))
         >= AmountOver(IncomeIndices) * Cardinality(MonthsOf(ExpenseIndices))

\* C26, amended: when monthly_income_avg > 0 and monthly_expenses_avg >=
\* monthly_income_avg the score is 50 - 20 plus the trend adjustment, hence
\* at most 40.
C26_OverspendingByAveragesPenalised ==
    (pc = "done" /\ Len(transactions_df) > 0 /\ OverspendingByAverages)
        => /\ AnalysisOf.financial_health_score
                = 30 + TrendBonusOf(AnalysisOf)
           /\ AnalysisOf.financial_health_score <= 40

\* expenses average 200 over two months against an income average of 100,
\* with a savings target set and a falling trend: exactly 40
C26_Witness ==
    /\ pc = "done"
    /\ Len(transactions_df) > 0
    /\ OverspendingByAverages
    /\ TargetOf > 0
    /\ AnalysisOf.spending_trend = "decreasing"
    /\ AnalysisOf.financial_health_score = 40

(***************************************************************************)
(* C25: Credit amounts never count as spending: after the batch and the    *)
(* analysis, total_expenses, expense_breakdown and monthly_spending hold   *)
(* the amounts of the non-Income Debit rows only.                          *)
(***************************************************************************)
CreditIndices ==
    { i \in 1..Len(transactions_df) : transactions_df[i].type = "Credit" }

RECURSIVE ValuesTotal(_)
\* the sum of the values of a sequence of [key, value] entries
ValuesTotal(entries) ==
    IF Len(entries) = 0 THEN 0
    ELSE entries[1].value + ValuesTotal(Tail(entries))

RECURSIVE AmountsTotal(_)
\* the sum of the amounts of a sequence of [period, amount] entries
AmountsTotal(series) ==
    IF Len(series) = 0 THEN 0
    ELSE series[1].amount + AmountsTotal(Tail(series))

\* the monthly_spending entry of the analysis, empty when the key is absent
MonthlySpendingOf ==
    IF "monthly_spending" \in DOMAIN AnalysisOf
    THEN AnalysisOf.monthly_spending
    ELSE << >>

C25_CreditNeverSpending ==
    (pc = "done" /\ Len(transactions_df) > 0) =>
        LET debits == AmountOver(ExpenseIndices \ CreditIndices)
        IN  /\ AnalysisOf.total_expenses = debits
            /\ ValuesTotal(AnalysisOf.expense_breakdown) = debits
            /\ AmountsTotal(MonthlySpendingOf) = debits

(***************************************************************************)
(* C27: conservation of amounts: for a non-empty categorized table every   *)
(* amount is counted once, in total_income when the category is Income     *)
(* and in total_expenses otherwise; the values of expense_breakdown and    *)
(* of monthly_spending each sum to total_expenses; Income is never a key   *)
(* of expense_breakdown.                                                   *)
(***************************************************************************)
C27_Conservation ==
    (pc = "done" /\ Len(transactions_df) > 0) =>
        /\ AnalysisOf.total_income = AmountOver(IncomeIndices)
        /\ AnalysisOf.total_expenses = AmountOver(ExpenseIndices)
        /\ AnalysisOf.total_income + AnalysisOf.total_expenses
             = AmountOver(1..Len(transactions_df))
        /\ ValuesTotal(AnalysisOf.expense_breakdown)
             = AnalysisOf.total_expenses
        /\ AmountsTotal(MonthlySpendingOf) = AnalysisOf.total_expenses
        /\ \A k \in DOMAIN AnalysisOf.expense_breakdown :
              AnalysisOf.expense_breakdown[k].key # "Income"

\* an Income row and expenses over two categories and two months
C27_Witness ==
    /\ pc = "done"
    /\ Len(transactions_df) > 0
    /\ AnalysisOf.total_income > 0
    /\ Len(AnalysisOf.expense_breakdown) >= 2
    /\ Len(MonthlySpendingOf) >= 2

(***************************************************************************)
(* C23: the two categorizers agree on the rule path: when a keyword is a   *)
(* substring of the lower-cased description both return the same           *)
(* category; when none is and the similarity step yields Other, both       *)
(* return the same fallback on type and amount (Income, Shopping,          *)
(* Bills & Utilities or Other).                                            *)
(***************************************************************************)
C23_VariantsAgree ==
    pc = "done" =>
        /\ MatchingCategories(description) # {} =>
              /\ ai_category = category
              /\ \E i \in MatchingCategories(description) :
                    ai_category = CATEGORY_KEYWORDS[i].category
        /\ (MatchingCategories(description) = {} /\ ml_category = "Other") =>
              /\ ai_category = category
              /\ ai_category =
                    IF transaction_type = "Credit" THEN "Income"
                    ELSE IF amount > 10000 THEN "Shopping"
                    ELSE IF amount > 1000 THEN "Bills & Utilities"
                    ELSE "Other"

\* an upper-case keyword while the similarity step proposes something else
C23_Witness ==
    /\ pc = "done"
    /\ description = "UBER"
    /\ ml_category = "Income"
    /\ ai_category = "Transportation"
    /\ category = "Transportation"

(***************************************************************************)
(* C21: categorize-before-analyze barrier: whenever the app has run the    *)
(* analysis, every row of the table it ran on had its category written     *)
(* by the categorizer or by a correction of the user.                      *)
(***************************************************************************)
C21_CategorizedBeforeAnalysis ==
    pc = "create_profile" =>
        \A i \in 1..Len(transactions_df) :
            assigned_by[i] \in { "categorizer", "user" }

====
